---------------------------- MODULE Spec2Model ----------------------------
(***************************************************************************)
(* Lightning Network route optimisation (qubitchainhongkong/main_product). *)
(*                                                                         *)
(* The module models three parts of lightning_network/src:                 *)
(*   graph_generator.py  LightningNetworkGraph.generate and its helpers,   *)
(*   route_finder.py     RouteFinder.find_route_candidates and the batch   *)
(*                       search find_all_route_candidates,                 *)
(*   hamiltonian.py /    HamiltonianBuilder's three terms and              *)
(*   optimizer.py        RouteOptimizer.optimize with its decoder,         *)
(*                       statistics and feasibility check.                 *)
(*                                                                         *)
(* Units.  Fees and weights are integers counting 1e-4 of a fee unit, so   *)
(* that base_fee * max(0.01, g) with g in hundredths is the integer        *)
(* 10 * max(1, g) and a weight fee * max(0.1, 1 + noise) with noise in     *)
(* tenths is the integer fee * max(1, 10 + noise) / 10.  Solver values are *)
(* in tenths (0, 5, 10 stand for 0.0, 0.5, 1.0).                           *)
(***************************************************************************)
EXTENDS Integers, Sequences, FiniteSets, TLC

VARIABLES
    gen,            \* LightningNetworkGraph: parameters, local G, loop counters
    graph,          \* the base topology (LightningNetworkGraph.graph / RouteFinder.graph)
    transactions,   \* the transaction list handed to optimize()
    k,              \* num_route_candidates handed to optimize()
    rf,             \* RouteFinder: position of the search, routes, G_temp weights
    hb,             \* HamiltonianBuilder: alpha, beta, num_route_candidates
    best,           \* what amplify.solve returned (result.best) or how it failed
    result,         \* the OptimizationResult returned by optimize()
    pc,             \* position of optimize() (or of the caller of a part)
    txgen,          \* generate_transactions: its arguments while it runs
    built,          \* what the calls of build_total_hamiltonian returned, in order
    returned        \* what the last get_route_info or get_statistics call returned

vars == <<gen, graph, transactions, k, rf, hb, best, result, pc, txgen, built,
          returned>>

None == "None"

(***************************************************************************)
(* Arithmetic and sequence helpers.                                        *)
(***************************************************************************)
Max(a, b) == IF a >= b THEN a ELSE b

Min(a, b) == IF a <= b THEN a ELSE b

RECURSIVE SumSeq(_)
SumSeq(s) == IF s = <<>> THEN 0 ELSE Head(s) + SumSeq(Tail(s))

\* Sum of f[x] over the domain of the function f.
RECURSIVE SumFn(_)
SumFn(f) ==
    IF DOMAIN f = {} THEN 0
    ELSE LET x == CHOOSE y \in DOMAIN f : TRUE
         IN  f[x] + SumFn([y \in DOMAIN f \ {x} |-> f[y]])

SeqToSet(s) == {s[i] : i \in 1..Len(s)}

(***************************************************************************)
(* networkx.Graph as used by the program: a node set, a set of undirected  *)
(* edges {u, v}, and the edge attributes capacity, fee and weight (each a  *)
(* function on the edges that carry the attribute).                        *)
(***************************************************************************)
Edge(u, v) == {u, v}

HasEdge(G, u, v) == u # v /\ Edge(u, v) \in G.edges

\* Nodes reachable from the set `seen` along `edges`.
RECURSIVE Reach(_, _)
Reach(seen, edges) ==
    LET more == {n \in UNION edges : \E e \in edges : n \in e /\ e \cap seen # {}}
    IN  IF more \subseteq seen THEN seen ELSE Reach(seen \cup more, edges)

\* nx.is_connected
IsConnected(nodes, edges) ==
    \E n \in nodes : Reach({n}, edges) = nodes


(***************************************************************************)
(* graph_generator.py : LightningNetworkGraph                              *)
(***************************************************************************)
\* Inputs of the generator: num_nodes (0 is accepted by the constructor)
\* and num_channels.
NodeCounts == {0, 3, 4}

MaxChannels == 6

ChannelCounts == 1..MaxChannels

\* capacity_range arguments tried.
CapacityRanges == {<<2, 3>>}

\* Draws of rng.normal(1.0, 1.0), in hundredths.
GaussDraws == {-50, 100}

\* base_fee = 0.1, as 1e-4 fee units per hundredth of fee_multiplier.
BaseFee == 10

\* The floor 0.01 of fee_multiplier, in hundredths.
FeeFloor == 1

\* self.graph = None
NoneGraph ==
    [nodes |-> {}, edges |-> {},
     capacity |-> [e \in {} |-> 0], fee |-> [e \in {} |-> 0],
     weight |-> [e \in {} |-> 0]]

GenIdle ==
    [pc |-> "idle", num_nodes |-> 0, num_channels |-> 0, cmin |-> 0, cmax |-> 0,
     G |-> {}, num_edges |-> 0, added |-> 0, attempts |-> 0,
     pending |-> {}, removed |-> 0]

\* LightningNetworkGraph.__init__
GenNew(N, E, range) ==
    [GenIdle EXCEPT !.pc = "new", !.num_nodes = N, !.num_channels = E,
                    !.cmin = range[1], !.cmax = range[2]]

GenNodes(g) == 0..(g.num_nodes - 1)

\* m of _create_scale_free_graph
AttachmentParameter(N, E) ==
    LET avg_degree == (E * 2) \div N
    IN  Max(1, avg_degree \div 2)

\* nx.barabasi_albert_graph(n, m): a star on the nodes 0..m (its centre is
\* node 0 or node m, depending on the networkx release), then every node
\* source = m+1 .. n-1 is joined to m distinct existing nodes.  Every
\* existing node has degree >= 1, so every m-subset can be drawn.
RECURSIVE BAAttach(_, _, _, _)
BAAttach(graphs, source, n, m) ==
    IF source >= n THEN graphs
    ELSE BAAttach({g \cup {Edge(source, t) : t \in T} :
                      g \in graphs,
                      T \in {S \in SUBSET (0..(source - 1)) : Cardinality(S) = m}},
                  source + 1, n, m)

BarabasiAlbertGraphs(n, m) ==
    BAAttach({{Edge(c, j) : j \in (0..m) \ {c}} : c \in {0, m}}, m + 1, n, m)

\* generate() up to the end of the Barabasi-Albert call and the branch on
\* the edge count in _create_scale_free_graph.  N = 0 divides by zero and
\* m >= N makes networkx raise: generate() then ends with an exception.
CreateScaleFreeGraph ==
    /\ gen.pc = "new"
    /\ IF gen.num_nodes <= 0 \/ AttachmentParameter(gen.num_nodes, gen.num_channels) >= gen.num_nodes
       THEN gen' = [gen EXCEPT !.pc = "raised"]
       ELSE \E B \in BarabasiAlbertGraphs(gen.num_nodes,
                        AttachmentParameter(gen.num_nodes, gen.num_channels)) :
              LET current_edges == Cardinality(B)
                  target_edges  == gen.num_channels
              IN  gen' = [gen EXCEPT
                            !.G = B,
                            !.pc = IF current_edges < target_edges THEN "add"
                                   ELSE IF current_edges > target_edges THEN "remove"
                                   ELSE "attrs",
                            !.num_edges = IF current_edges < target_edges
                                          THEN target_edges - current_edges
                                          ELSE current_edges - target_edges,
                            !.pending = IF current_edges > target_edges THEN B ELSE {}]
    /\ UNCHANGED <<returned, txgen, built, graph, transactions, k, rf, hb, best, result, pc>>

\* A budget of eleven attempts per missing edge.
MaxAttemptsEleven(num_edges) == num_edges * 11

\* max_attempts of _add_random_edges
MaxAttempts(num_edges) == num_edges * 10

\* One iteration of the while loop of _add_random_edges: rng.choice draws
\* two distinct nodes.
AddRandomEdge ==
    /\ gen.pc = "add"
    /\ gen.added < gen.num_edges /\ gen.attempts < MaxAttempts(gen.num_edges)
    /\ \E u \in GenNodes(gen), v \in GenNodes(gen) :
         /\ u # v
         /\ gen' = IF Edge(u, v) \notin gen.G
                   THEN [gen EXCEPT !.G = @ \cup {Edge(u, v)}, !.added = @ + 1,
                                    !.attempts = @ + 1]
                   ELSE [gen EXCEPT !.attempts = @ + 1]
    /\ UNCHANGED <<returned, txgen, built, graph, transactions, k, rf, hb, best, result, pc>>

\* The while loop of _add_random_edges ends; its counters go out of scope.
AddRandomEdgesReturn ==
    /\ gen.pc = "add"
    /\ ~(gen.added < gen.num_edges /\ gen.attempts < MaxAttempts(gen.num_edges))
    /\ gen' = [gen EXCEPT !.pc = "attrs", !.added = 0, !.attempts = 0]
    /\ UNCHANGED <<returned, txgen, built, graph, transactions, k, rf, hb, best, result, pc>>

\* A removal that never tests connectivity.
AlwaysConnected(nodes, edges) == TRUE

\* The test of _remove_random_edges after G.remove_edge(*edge).
StaysConnected(nodes, edges) == IsConnected(nodes, edges)

\* One iteration of the for loop of _remove_random_edges.  The list was
\* shuffled, so the next edge is any edge not yet visited.
RemoveRandomEdge ==
    /\ gen.pc = "remove"
    /\ gen.pending # {} /\ gen.removed < gen.num_edges
    /\ \E e \in gen.pending :
         gen' = IF StaysConnected(GenNodes(gen), gen.G \ {e})
                THEN [gen EXCEPT !.G = @ \ {e}, !.removed = @ + 1,
                                 !.pending = @ \ {e}]
                ELSE [gen EXCEPT !.pending = @ \ {e}]
    /\ UNCHANGED <<returned, txgen, built, graph, transactions, k, rf, hb, best, result, pc>>

\* The for loop of _remove_random_edges ends (list exhausted, or break); its
\* locals go out of scope.
RemoveRandomEdgesReturn ==
    /\ gen.pc = "remove"
    /\ (gen.pending = {} \/ gen.removed >= gen.num_edges)
    /\ gen' = [gen EXCEPT !.pc = "attrs", !.pending = {}, !.removed = 0]
    /\ UNCHANGED <<returned, txgen, built, graph, transactions, k, rf, hb, best, result, pc>>

\* A fee without the floor on fee_multiplier.
ChannelFeeUnfloored(g) == BaseFee * g

\* fee of one channel for the draw g of rng.normal(1.0, 1.0)
ChannelFee(g) == BaseFee * Max(FeeFloor, g)

\* The attributes _set_channel_attributes gives the edges, for the drawn
\* capacities cap and Gaussian draws g.
ChannelAttributes(nodes, edges, cap, g) ==
    [nodes |-> nodes, edges |-> edges,
     capacity |-> [e \in edges |-> cap[e]],
     fee      |-> [e \in edges |-> ChannelFee(g[e])],
     weight   |-> [e \in edges |-> ChannelFee(g[e])]]

\* self.graph = G, then _set_channel_attributes, then generate() returns.
SetChannelAttributes ==
    /\ gen.pc = "attrs"
    /\ \E cap \in [gen.G -> gen.cmin..gen.cmax], g \in [gen.G -> GaussDraws] :
         graph' = ChannelAttributes(GenNodes(gen), gen.G, cap, g)
    /\ gen' = [gen EXCEPT !.pc = "done"]
    /\ UNCHANGED <<returned, txgen, built, transactions, k, rf, hb, best, result, pc>>

\* generate_transactions is not running.
TxGenIdle == [num_transactions |-> 0, amin |-> 0, amax |-> 0]

OptIdle ==
    /\ txgen = TxGenIdle
    /\ built = <<>>
    /\ returned = None
    /\ transactions = <<>>
    /\ k = 0
    /\ rf = None
    /\ hb = None
    /\ best = [status |-> "none", values |-> [i \in {} |-> 0], objective |-> 0]
    /\ result = None
    /\ pc = "idle"

InitGen ==
    /\ \E N \in NodeCounts, E \in ChannelCounts, range \in CapacityRanges :
         gen = GenNew(N, E, range)
    /\ graph = NoneGraph
    /\ OptIdle

NextGen ==
    \/ CreateScaleFreeGraph
    \/ AddRandomEdge
    \/ AddRandomEdgesReturn
    \/ RemoveRandomEdge
    \/ RemoveRandomEdgesReturn
    \/ SetChannelAttributes

SpecGen == InitGen /\ [][NextGen]_vars

(***************************************************************************)
(* route_finder.py : Transaction, RouteFinder                              *)
(***************************************************************************)
\* Transaction.__init__
Transaction(source, target, amount, transaction_id) ==
    [source |-> source, target |-> target, amount |-> amount,
     transaction_id |-> transaction_id]

\* Draws of rng.normal(0, randomness), in tenths.
NoiseDraws == {-15, 0, 15}

\* The floor 0.1 of the multiplier, in tenths.
MultiplierFloor == 1

\* 1.0 in tenths.
One == 10

Last(p) == p[Len(p)]

Neighbours(edges, n) == {m \in UNION edges : m # n /\ Edge(n, m) \in edges}

\* Every simple path that extends p to end at t.
RECURSIVE PathsFrom(_, _, _)
PathsFrom(edges, p, t) ==
    IF Last(p) = t THEN {p}
    ELSE UNION {PathsFrom(edges, Append(p, n), t) :
                   n \in Neighbours(edges, Last(p)) \ SeqToSet(p)}

PathWeight(w, p) == SumSeq([i \in 1..(Len(p) - 1) |-> w[Edge(p[i], p[i + 1])]])

\* A search that ignores the weights: a path of fewest hops.
FewestHopPaths(edges, w, s, t) ==
    LET all == PathsFrom(edges, <<s>>, t)
    IN  {p \in all : \A q \in all : Len(p) <= Len(q)}

\* nx.dijkstra_path(G, source, target, weight='weight') on positive
\* weights: a path of minimum total weight (which one, among several of
\* equal weight, is networkx's choice); the empty set stands for
\* NetworkXNoPath.
ShortestPaths(edges, w, s, t) ==
    LET all == PathsFrom(edges, <<s>>, t)
    IN  {p \in all : \A q \in all : PathWeight(w, p) <= PathWeight(w, q)}

\* _find_shortest_path
FindShortestPath(edges, w, tx) == ShortestPaths(edges, w, tx.source, tx.target)

\* A multiplier without the floor.
MultiplierUnfloored(noise) == One + noise

\* multiplier = max(0.1, 1.0 + rng.normal(0, randomness)), in tenths
Multiplier(noise) == Max(MultiplierFloor, One + noise)

\* A perturbation that multiplies the current weight of the edge.
RandomizeWeightsInPlace(G, noise) ==
    [e \in G.edges |-> (G.weight[e] * Multiplier(noise[e])) \div One]

\* _randomize_weights: the weights of G after the call, for the draws
\* noise[e] (one per edge); G is the private copy, whose 'fee' is the
\* topology's and whose 'weight' is the working weight.
RandomizeWeights(G, noise) ==
    [e \in G.edges |-> (G.fee[e] * Multiplier(noise[e])) \div One]

\* An append without the "path not in routes" test.
AcceptPathUnchecked(routes, path) ==
    IF Len(path) > 1 THEN Append(routes, path) ELSE routes

\* The routes after "if path and len(path) > 1: if path not in routes:
\* routes.append(path)".
AcceptPath(routes, path) ==
    IF Len(path) > 1 /\ path \notin SeqToSet(routes)
    THEN Append(routes, path)
    ELSE routes

\* A working graph that is the base graph itself: the weights written by
\* _randomize_weights land in self.graph.
SharedGraph(G, w) == [G EXCEPT !.weight = w]

\* self.graph after "G_temp = self.graph.copy()" and the writes of the
\* weights w to G_temp: the copy has its own edge attribute dictionaries,
\* so the base graph is as before.
BaseGraph(G, w) == G

\* self.rng = np.random.default_rng(42): the generator's state is the
\* number of _randomize_weights calls it has served (each call draws once
\* per edge); stream lists the draws of the first calls, one noise map per
\* call, where the model fixes what the seed gives, and further calls may
\* draw anything.
DefaultRng(stream) == [stream |-> stream, calls |-> 0]

\* The noise maps the generator in state rng can give the next call.
NormalDraws(rng, edges) ==
    IF rng.calls < Len(rng.stream) THEN {rng.stream[rng.calls + 1]}
    ELSE [edges -> NoiseDraws]

\* RouteFinder(graph, k) and the entry of find_route_candidates: no route
\* yet, G_temp a copy of the graph.
RouteFinderNew(G) ==
    [tx_idx |-> 1, attempt |-> 0, routes |-> <<>>, broke |-> FALSE,
     G_temp |-> G.weight, all_routes |-> [i \in {} |-> <<>>],
     rng |-> DefaultRng(<<>>)]

CurrentTx == transactions[rf.tx_idx]

\* One iteration of "for attempt in range(self.num_route_candidates)".
FindRouteAttempt ==
    /\ pc = "find"
    /\ rf.tx_idx <= Len(transactions)
    /\ rf.attempt < k /\ ~rf.broke
    /\ \E noise \in (IF rf.attempt = 0 THEN {[e \in graph.edges |-> 0]}
                      ELSE NormalDraws(rf.rng, graph.edges)) :
         LET w     == IF rf.attempt = 0 THEN rf.G_temp
                      ELSE RandomizeWeights([graph EXCEPT !.weight = rf.G_temp], noise)
             calls == IF rf.attempt = 0 THEN rf.rng.calls ELSE rf.rng.calls + 1
             paths == FindShortestPath(graph.edges, w, CurrentTx)
         IN  /\ graph' = BaseGraph(graph, w)
             /\ IF paths = {}
                THEN \* except nx.NetworkXNoPath: continue
                     rf' = [rf EXCEPT !.attempt = @ + 1, !.G_temp = w,
                                      !.rng.calls = calls]
                ELSE \E path \in paths :
                       LET routes == AcceptPath(rf.routes, path)
                       IN  rf' = [rf EXCEPT !.attempt = @ + 1, !.G_temp = w,
                                            !.rng.calls = calls,
                                            !.routes = routes,
                                            !.broke = (Len(routes) >= k)]
    /\ UNCHANGED <<returned, txgen, built, gen, transactions, k, hb, best, result, pc>>

\* find_route_candidates returns and find_all_route_candidates stores the
\* routes under the transaction's id; the next call starts on a new copy.
FindRouteReturn ==
    /\ pc = "find"
    /\ rf.tx_idx <= Len(transactions)
    /\ (rf.attempt >= k \/ rf.broke)
    /\ rf' = [rf EXCEPT
                !.all_routes = [i \in DOMAIN @ \cup {CurrentTx.transaction_id} |->
                                  IF i = CurrentTx.transaction_id THEN rf.routes
                                  ELSE @[i]],
                !.tx_idx = @ + 1, !.attempt = 0, !.routes = <<>>,
                !.broke = FALSE, !.G_temp = graph.weight]
    /\ UNCHANGED <<returned, txgen, built, gen, graph, transactions, k, hb, best, result, pc>>

\* find_all_route_candidates returns to optimize().
FindAllReturn ==
    /\ pc = "find"
    /\ rf.tx_idx > Len(transactions)
    /\ pc' = "build"
    /\ UNCHANGED <<returned, txgen, built, gen, graph, transactions, k, rf, hb, best, result>>

\* get_route_info(route): the hops, and the fee and capacities of the hops
\* that are channels of self.graph.
RouteInfo(G, route) ==
    IF Len(route) < 2
    THEN [num_hops |-> 0, total_fee |-> 0, channels |-> <<>>, capacities |-> <<>>]
    ELSE LET num_hops   == Len(route) - 1
             channels   == [i \in 1..num_hops |-> <<route[i], route[i + 1]>>]
             present    == SelectSeq(channels, LAMBDA c : HasEdge(G, c[1], c[2]))
             capacities == [i \in 1..Len(present) |->
                              G.capacity[Edge(present[i][1], present[i][2])]]
             fees       == [i \in 1..Len(present) |->
                              G.fee[Edge(present[i][1], present[i][2])]]
         IN  [num_hops |-> num_hops, total_fee |-> SumSeq(fees),
              channels |-> channels, capacities |-> capacities,
              avg_capacity |-> IF capacities = <<>> THEN [num |-> 0, den |-> 1]
                               ELSE [num |-> SumSeq(capacities),
                                     den |-> Len(capacities)]]

\* A caller asks get_route_info about one of the candidates it was given
\* by find_all_route_candidates.
GetRouteInfo ==
    /\ pc = "build"
    /\ \E id \in DOMAIN rf.all_routes :
         \E j \in 1..Len(rf.all_routes[id]) :
            returned' = RouteInfo(graph, rf.all_routes[id][j])
    /\ pc' = "info"
    /\ UNCHANGED <<txgen, built, gen, graph, transactions, k, rf, hb, best, result>>

(***************************************************************************)
(* hamiltonian.py : HamiltonianBuilder                                     *)
(*                                                                         *)
(* A decision variable is the pair <<row, column>> of its place in the     *)
(* matrix self.x (both from 0).  A polynomial is modelled by its value on  *)
(* an assignment x of 0/1 to the variables; channel_usage, which the code  *)
(* compares with 0 as a polynomial, by its coefficients.                   *)
(***************************************************************************)
\* The variables of gen.array("Binary", shape=(n, K)).
Variables(n, K) == (0..(n - 1)) \X (0..(K - 1))

\* self.num_route_candidates = max(len(routes) for routes in ...values())
MaxRouteCount(rc) ==
    CHOOSE m \in {Len(rc[i]) : i \in DOMAIN rc} :
        \A i \in DOMAIN rc : Len(rc[i]) <= m

\* The argument beta of optimize(): None, or a number.
NoBeta == [given |-> FALSE, value |-> 0]

GivenBeta(b) == [given |-> TRUE, value |-> b]

\* self.beta as the fraction num/den: mean(amount)^2 * 100 when beta is
\* None, the argument otherwise.
Beta(txs, beta) ==
    IF ~beta.given
    THEN [num |-> SumSeq([i \in 1..Len(txs) |-> txs[i].amount])
                  * SumSeq([i \in 1..Len(txs) |-> txs[i].amount]) * 100,
          den |-> Len(txs) * Len(txs)]
    ELSE [num |-> beta.value, den |-> 1]

\* HamiltonianBuilder.__init__ (rc has at least one entry).  self.x is the
\* number of the array that self.gen issued for it, 0 standing for None;
\* arrays counts the arrays self.gen has issued.
HamiltonianBuilderNew(txs, rc, alpha, beta) ==
    [alpha |-> alpha, beta |-> Beta(txs, beta),
     num_transactions |-> Len(txs),
     num_route_candidates |-> MaxRouteCount(rc),
     x |-> 0, arrays |-> 0]

\* create_variables: self.gen.array issues a matrix of fresh variables.
CreateVariables(h) == [h EXCEPT !.arrays = @ + 1, !.x = h.arrays + 1]

\* A builder that makes a new matrix on every call.
AlwaysNeedsVariables(h) == TRUE

\* "if self.x is None" of build_total_hamiltonian
NeedsVariables(h) == h.x = 0

\* A test that looks for the channel in the direction (u, v) only.
RouteUsesChannelOneWay(route, u, v) ==
    IF Len(route) < 2 THEN FALSE
    ELSE \E i \in 1..(Len(route) - 1) : route[i] = u /\ route[i + 1] = v

\* _route_uses_channel
RouteUsesChannel(route, u, v) ==
    IF Len(route) < 2 THEN FALSE
    ELSE \E i \in 1..(Len(route) - 1) :
            \/ (route[i] = u /\ route[i + 1] = v)
            \/ (route[i] = v /\ route[i + 1] = u)

\* The pair (u, v) under which graph.edges() yields the edge e.
EdgeEnds(e) ==
    LET u == CHOOSE a \in e : \A b \in e : a <= b
        v == CHOOSE b \in e : \A a \in e : a <= b
    IN  <<u, v>>

\* The candidates of transaction tx that the loops of the builder visit:
\* the indices route_idx of enumerate(route_candidates[tx_id]) with
\* route_idx < num_route_candidates (none when tx_id is not a key).
VisitedCandidates(tx, rc, K) ==
    IF tx.transaction_id \in DOMAIN rc
    THEN {j \in 0..(Len(rc[tx.transaction_id]) - 1) : j < K}
    ELSE {}

\* The coefficients of channel_usage for the channel (u, v) after the
\* transactions txs[i..]: amount is added to x[tx_id][route_idx] for every
\* visited candidate that uses the channel.
RECURSIVE ChannelUsage(_, _, _, _, _, _, _)
ChannelUsage(txs, i, rc, n, K, u, v) ==
    IF i > Len(txs) THEN [var \in Variables(n, K) |-> 0]
    ELSE LET tx   == txs[i]
             rest == ChannelUsage(txs, i + 1, rc, n, K, u, v)
         IN  [var \in Variables(n, K) |->
                rest[var] +
                (IF /\ var[1] = tx.transaction_id
                    /\ var[2] \in VisitedCandidates(tx, rc, K)
                    /\ RouteUsesChannel(rc[tx.transaction_id][var[2] + 1], u, v)
                 THEN tx.amount ELSE 0)]

\* The value of a linear polynomial with coefficients c on x.
EvalLinear(c, x) == SumFn([var \in DOMAIN c |-> c[var] * x[var]])

\* "if channel_usage != 0": the polynomial has a term.
UsageIsNonZero(c) == \E var \in DOMAIN c : c[var] # 0

\* The penalty one channel adds to H_capacity.
ChannelPenalty(G, e, txs, rc, n, K, x) ==
    LET c == ChannelUsage(txs, 1, rc, n, K, EdgeEnds(e)[1], EdgeEnds(e)[2])
    IN  IF UsageIsNonZero(c)
        THEN (EvalLinear(c, x) - G.capacity[e]) * (EvalLinear(c, x) - G.capacity[e])
        ELSE 0

\* build_capacity_constraint_hamiltonian, evaluated on x
CapacityHamiltonian(G, txs, rc, n, K, x) ==
    SumFn([e \in G.edges |-> ChannelPenalty(G, e, txs, rc, n, K, x)])

\* A row sum that takes one column more than the transaction has routes.
NumRoutesOneMore(tx, rc, K) ==
    IF tx.transaction_id \in DOMAIN rc
    THEN Min(Len(rc[tx.transaction_id]) + 1, K)
    ELSE 0

\* A row sum over all K columns, whatever the transaction's route count.
NumRoutesWholeRow(tx, rc, K) ==
    IF tx.transaction_id \in DOMAIN rc THEN K ELSE 0

\* num_routes of build_route_constraint_hamiltonian
NumRoutes(tx, rc, K) ==
    IF tx.transaction_id \in DOMAIN rc
    THEN Min(Len(rc[tx.transaction_id]), K)
    ELSE 0

\* H_route of build_route_constraint_hamiltonian after the transactions
\* txs[i..], evaluated on x
RECURSIVE RouteSquares(_, _, _, _, _)
RouteSquares(txs, i, rc, K, x) ==
    IF i > Len(txs) THEN 0
    ELSE LET tx        == txs[i]
             route_sum == SumFn([j \in 0..(NumRoutes(tx, rc, K) - 1) |->
                                    x[<<tx.transaction_id, j>>]])
         IN  (IF NumRoutes(tx, rc, K) > 0
              THEN (route_sum - 1) * (route_sum - 1) ELSE 0)
             + RouteSquares(txs, i + 1, rc, K, x)

\* build_route_constraint_hamiltonian, evaluated on x
RouteHamiltonian(txs, rc, K, alpha, x) == alpha * RouteSquares(txs, 1, rc, K, x)

\* A distance that counts the nodes of a route, not its channels.
RECURSIVE DistanceSumNodes(_, _, _, _, _)
DistanceSumNodes(txs, i, rc, K, x) ==
    IF i > Len(txs) THEN 0
    ELSE LET tx == txs[i]
         IN  SumFn([j \in VisitedCandidates(tx, rc, K) |->
                      Len(rc[tx.transaction_id][j + 1]) * x[<<tx.transaction_id, j>>]])
             + DistanceSumNodes(txs, i + 1, rc, K, x)

\* H_distance of build_distance_cost_hamiltonian after the transactions
\* txs[i..], evaluated on x
RECURSIVE DistanceSum(_, _, _, _, _)
DistanceSum(txs, i, rc, K, x) ==
    IF i > Len(txs) THEN 0
    ELSE LET tx == txs[i]
         IN  SumFn([j \in VisitedCandidates(tx, rc, K) |->
                      (Len(rc[tx.transaction_id][j + 1]) - 1)
                      * x[<<tx.transaction_id, j>>]])
             + DistanceSum(txs, i + 1, rc, K, x)

\* build_distance_cost_hamiltonian, evaluated on x: the fraction
\* beta * H_distance
DistanceHamiltonian(txs, rc, K, beta, x) ==
    [num |-> beta.num * DistanceSum(txs, 1, rc, K, x), den |-> beta.den]

\* The assignments of 0/1 to the variables of the matrix.
Assignments(n, K) == [Variables(n, K) -> {0, 1}]

\* A total that leaves the distance term out.
TotalWithoutDistance(H_capacity, H_route, H_distance) ==
    [num |-> (H_capacity + H_route) * H_distance.den, den |-> H_distance.den]

\* H_total = H_capacity + H_route + H_distance, as a fraction over the
\* denominator of the distance term.
TotalHamiltonian(H_capacity, H_route, H_distance) ==
    [num |-> (H_capacity + H_route) * H_distance.den + H_distance.num,
     den |-> H_distance.den]

\* What build_total_hamiltonian returns once self.x exists: the pair
\* (H_total, hamiltonians), each polynomial as its values on the
\* assignments; x names the matrix the polynomials are over.
Hamiltonians(G, txs, rc, h) ==
    LET n == h.num_transactions
        K == h.num_route_candidates
        H_capacity == [x \in Assignments(n, K) |->
                          CapacityHamiltonian(G, txs, rc, n, K, x)]
        H_route    == [x \in Assignments(n, K) |->
                          RouteHamiltonian(txs, rc, K, h.alpha, x)]
        H_distance == [x \in Assignments(n, K) |->
                          DistanceHamiltonian(txs, rc, K, h.beta, x)]
        H_total    == [x \in Assignments(n, K) |->
                          TotalHamiltonian(H_capacity[x], H_route[x], H_distance[x])]
    IN  [x |-> h.x, H_total |-> H_total,
         hamiltonians |-> [capacity |-> H_capacity, route |-> H_route,
                           distance |-> H_distance, total |-> H_total]]

\* The rows the three builders index self.x with: x[tx_id] for every
\* transaction that has a visited candidate.
RowsUsed(txs, rc, K) ==
    {txs[i].transaction_id :
        i \in {j \in 1..Len(txs) : VisitedCandidates(txs[j], rc, K) # {}}}

(***************************************************************************)
(* optimizer.py : RouteOptimizer                                           *)
(***************************************************************************)
\* Values the solver may report for a variable, in tenths.
SolverValues == {0, 5, 10}

\* The threshold 0.5 of _parse_result, in tenths.
Half == 5

\* Objective values the solver may report.
SolverObjectives == {0, 7}

EmptyMap == [i \in {} |-> 0]

\* d[key] = value on a Python dict
Put(d, key, value) ==
    [i \in DOMAIN d \cup {key} |-> IF i = key THEN value ELSE d[i]]

\* A decoder that takes 0.5 itself as selected.
RECURSIVE FirstSelectedAtHalf(_, _, _, _, _)
FirstSelectedAtHalf(routes, tx_id, route_idx, K, values) ==
    IF route_idx >= Len(routes) THEN -1
    ELSE IF route_idx < K /\ values[<<tx_id, route_idx>>] >= Half THEN route_idx
    ELSE FirstSelectedAtHalf(routes, tx_id, route_idx + 1, K, values)

\* The inner loop of _parse_result from route_idx on: the first index whose
\* variable evaluates above 0.5, or -1 when the loop ends without a break.
RECURSIVE FirstSelected(_, _, _, _, _)
FirstSelected(routes, tx_id, route_idx, K, values) ==
    IF route_idx >= Len(routes) THEN -1
    ELSE IF route_idx < K /\ values[<<tx_id, route_idx>>] > Half THEN route_idx
    ELSE FirstSelected(routes, tx_id, route_idx + 1, K, values)

\* selected_routes of _parse_result after the transactions txs[1..i]
RECURSIVE SelectedRoutes(_, _, _, _, _)
SelectedRoutes(txs, i, rc, K, values) ==
    IF i = 0 THEN EmptyMap
    ELSE LET tx_id == txs[i].transaction_id
             sofar == SelectedRoutes(txs, i - 1, rc, K, values)
             idx   == IF tx_id \in DOMAIN rc
                      THEN FirstSelected(rc[tx_id], tx_id, 0, K, values)
                      ELSE -1
         IN  IF idx >= 0 THEN Put(sofar, tx_id, idx) ELSE sofar

\* Paths that are the first candidate of each selected transaction.
RoutePathsFirstCandidate(selected, rc) ==
    [tx_id \in DOMAIN selected |-> rc[tx_id][1]]

\* route_paths of _parse_result: the route stored with each selected index
RoutePaths(selected, rc) ==
    [tx_id \in DOMAIN selected |-> rc[tx_id][selected[tx_id] + 1]]

\* The fee summed along one route in _calculate_statistics
RouteFee(G, route) ==
    SumSeq([i \in 1..(Len(route) - 1) |->
              IF HasEdge(G, route[i], route[i + 1])
              THEN G.fee[Edge(route[i], route[i + 1])] ELSE 0])

\* A hop count that takes the nodes of a route for its hops.
RECURSIVE TotalHopsNodes(_, _, _)
TotalHopsNodes(txs, i, route_paths) ==
    IF i > Len(txs) THEN 0
    ELSE (IF txs[i].transaction_id \in DOMAIN route_paths
          THEN Len(route_paths[txs[i].transaction_id]) ELSE 0)
         + TotalHopsNodes(txs, i + 1, route_paths)

\* total_hops and total_fee of _calculate_statistics after txs[i..]
RECURSIVE TotalHops(_, _, _)
TotalHops(txs, i, route_paths) ==
    IF i > Len(txs) THEN 0
    ELSE (IF txs[i].transaction_id \in DOMAIN route_paths
          THEN Len(route_paths[txs[i].transaction_id]) - 1 ELSE 0)
         + TotalHops(txs, i + 1, route_paths)

RECURSIVE TotalFee(_, _, _, _)
TotalFee(G, txs, i, route_paths) ==
    IF i > Len(txs) THEN 0
    ELSE (IF txs[i].transaction_id \in DOMAIN route_paths
          THEN RouteFee(G, route_paths[txs[i].transaction_id]) ELSE 0)
         + TotalFee(G, txs, i + 1, route_paths)

\* "total / len(transactions) if transactions else 0", as a fraction
Average(total, txs) ==
    IF Len(txs) > 0 THEN [num |-> total, den |-> Len(txs)]
    ELSE [num |-> 0, den |-> 1]

\* _calculate_statistics
CalculateStatistics(G, txs, selected_routes, route_paths) ==
    [num_selected_routes |-> Cardinality(DOMAIN selected_routes),
     total_hops |-> TotalHops(txs, 1, route_paths),
     avg_hops   |-> Average(TotalHops(txs, 1, route_paths), txs),
     total_fee  |-> TotalFee(G, txs, 1, route_paths),
     avg_fee    |-> Average(TotalFee(G, txs, 1, route_paths), txs)]

\* A usage key that keeps the direction of the hop.
DirectedEdge(u, v) == <<u, v>>

\* edge = tuple(sorted([u, v]))
SortedEdge(u, v) == IF u <= v THEN <<u, v>> ELSE <<v, u>>

\* channel_usage of _check_feasibility after the hops h.. of one route
RECURSIVE AddRouteUsage(_, _, _, _)
AddRouteUsage(usage, route, h, amount) ==
    IF h > Len(route) - 1 THEN usage
    ELSE LET edge == SortedEdge(route[h], route[h + 1])
             old  == IF edge \in DOMAIN usage THEN usage[edge] ELSE 0
         IN  AddRouteUsage(Put(usage, edge, old + amount), route, h + 1, amount)

\* channel_usage of _check_feasibility after the transactions txs[1..i]
RECURSIVE FeasibilityUsage(_, _, _)
FeasibilityUsage(txs, i, route_paths) ==
    IF i = 0 THEN EmptyMap
    ELSE LET sofar == FeasibilityUsage(txs, i - 1, route_paths)
             tx    == txs[i]
         IN  IF tx.transaction_id \in DOMAIN route_paths
             THEN AddRouteUsage(sofar, route_paths[tx.transaction_id], 1, tx.amount)
             ELSE sofar

\* A check that also rejects usage equal to the capacity.
WithinCapacityStrict(usage, capacity) == usage < capacity

\* The comparison of one channel's usage with its capacity.
WithinCapacity(usage, capacity) == ~(usage > capacity)

\* A check of the channel usage alone, without the count of routes.
CheckFeasibilityUsageOnly(G, txs, route_paths) ==
    LET usage == FeasibilityUsage(txs, Len(txs), route_paths)
    IN  \A edge \in DOMAIN usage :
           HasEdge(G, edge[1], edge[2]) =>
               WithinCapacity(usage[edge], G.capacity[Edge(edge[1], edge[2])])

\* _check_feasibility
CheckFeasibility(G, txs, route_paths) ==
    IF Cardinality(DOMAIN route_paths) # Len(txs) THEN FALSE
    ELSE LET usage == FeasibilityUsage(txs, Len(txs), route_paths)
         IN  \A edge \in DOMAIN usage :
                HasEdge(G, edge[1], edge[2]) =>
                    WithinCapacity(usage[edge], G.capacity[Edge(edge[1], edge[2])])

Infinity == [inf |-> TRUE, value |-> 0]

Finite(v) == [inf |-> FALSE, value |-> v]

\* An error result that keeps the default objective 0.
CreateEmptyResultZeroObjective ==
    [selected_routes |-> EmptyMap, route_paths |-> EmptyMap,
     objective_value |-> Finite(0), is_feasible |-> FALSE,
     statistics |-> [num_selected_routes |-> 0, total_hops |-> 0,
                     avg_hops |-> [num |-> 0, den |-> 1], total_fee |-> 0,
                     avg_fee |-> [num |-> 0, den |-> 1]]]

\* _create_empty_result
CreateEmptyResult ==
    [selected_routes |-> EmptyMap, route_paths |-> EmptyMap,
     objective_value |-> Infinity, is_feasible |-> FALSE,
     statistics |-> [num_selected_routes |-> 0, total_hops |-> 0,
                     avg_hops |-> [num |-> 0, den |-> 1], total_fee |-> 0,
                     avg_fee |-> [num |-> 0, den |-> 1]]]

\* _parse_result
ParseResult(G, txs, rc, K, solution) ==
    LET selected_routes == SelectedRoutes(txs, Len(txs), rc, K, solution.values)
        route_paths     == RoutePaths(selected_routes, rc)
    IN  [selected_routes |-> selected_routes, route_paths |-> route_paths,
         objective_value |-> Finite(solution.objective),
         is_feasible |-> CheckFeasibility(G, txs, route_paths),
         statistics |-> CalculateStatistics(G, txs, selected_routes, route_paths)]

\* The arguments (alpha, beta) of optimize(): the defaults, and given ones.
WeightArguments == {<<2, NoBeta>>, <<3, GivenBeta(5)>>}

\* No call of amplify.solve yet.
NoSolution == [status |-> "none", values |-> [i \in {} |-> 0], objective |-> 0]

\* How step 2 of optimize() ends for the builder hb: "raised" when a row
\* index x[tx_id] lies outside the matrix (IndexError).  A matrix with no
\* column (no transaction has a candidate) is left to amplify, which may
\* refuse the shape or accept it.
BuildOutcomes(txs, rc, new) ==
    IF ~(RowsUsed(txs, rc, new.num_route_candidates)
            \subseteq 0..(new.num_transactions - 1))
    THEN {"raised"}
    ELSE IF new.num_route_candidates = 0 THEN {"raised", "solve"}
    ELSE {"solve"}

\* optimize(), step 2: HamiltonianBuilder(...), build_total_hamiltonian()
\* and get_variable_info().  max() of no route list raises ValueError; an
\* exception here leaves optimize().
BuildHamiltonian ==
    /\ pc = "build"
    /\ \E args \in WeightArguments :
         IF DOMAIN rf.all_routes = {}
         THEN /\ pc' = "raised"
              /\ hb' = hb
         ELSE LET new == HamiltonianBuilderNew(transactions, rf.all_routes,
                                               args[1], args[2])
              IN  /\ hb' = (IF NeedsVariables(new) THEN CreateVariables(new) ELSE new)
                  /\ pc' \in BuildOutcomes(transactions, rf.all_routes, new)
    /\ UNCHANGED <<returned, txgen, built, gen, graph, transactions, k, rf, best, result>>

\* A failed solve that is tried again.
SolveAgain == "solve"

\* Where optimize() goes when the solve raised or gave no solution:
\* "return self._create_empty_result(execution_time)".
AfterFailedSolve == "done"

\* optimize(), step 3: amplify.Model or amplify.solve raises; "except
\* Exception" returns the empty result.
SolveRaises ==
    /\ pc = "solve"
    /\ best' = [NoSolution EXCEPT !.status = "raised"]
    /\ result' = CreateEmptyResult
    /\ pc' = AfterFailedSolve
    /\ UNCHANGED <<returned, txgen, built, gen, graph, transactions, k, rf, hb>>

\* optimize(), step 3: amplify.solve returns a result of length 0.
SolveEmpty ==
    /\ pc = "solve"
    /\ best' = [NoSolution EXCEPT !.status = "empty"]
    /\ result' = CreateEmptyResult
    /\ pc' = AfterFailedSolve
    /\ UNCHANGED <<returned, txgen, built, gen, graph, transactions, k, rf, hb>>

\* optimize(), step 3: amplify.solve returns solutions; result.best is
\* decoded by _parse_result.
SolveReturns ==
    /\ pc = "solve"
    /\ \E values \in [Variables(hb.num_transactions, hb.num_route_candidates)
                        -> SolverValues],
          objective \in SolverObjectives :
         /\ best' = [status |-> "solved", values |-> values, objective |-> objective]
         /\ result' = ParseResult(graph, transactions, rf.all_routes,
                                  hb.num_route_candidates,
                                  [values |-> values, objective |-> objective])
    /\ pc' = "done"
    /\ UNCHANGED <<returned, txgen, built, gen, graph, transactions, k, rf, hb>>

(***************************************************************************)
(* The inputs of the route search and of optimize().                       *)
(***************************************************************************)
\* A generated topology: weight = fee on every edge.
Topology(nodes, edges, capacity, fee) ==
    [nodes |-> nodes, edges |-> edges, capacity |-> capacity, fee |-> fee,
     weight |-> fee]

TriangleEdges == {{0, 1}, {1, 2}, {0, 2}}

SquareEdges == {{0, 1}, {1, 2}, {2, 3}, {0, 3}}

\* Amounts are 2..MaxAmount.
MaxAmount == 3

Amounts == 2..MaxAmount

\* The transactions with the given endpoints and amounts, with the ids
\* first_id, first_id + 1, ...
TxList(endpoints, amounts, first_id) ==
    [i \in 1..Len(endpoints) |->
        Transaction(endpoints[i][1], endpoints[i][2], amounts[i], first_id + i - 1)]

TxLists(endpointLists, firstIds) ==
    UNION {{TxList(ep, am, id) : am \in [1..Len(ep) -> Amounts], id \in firstIds} :
              ep \in endpointLists}

\* Topologies and transaction lists of the route search.
RouteGraphs ==
    {Topology(0..2, TriangleEdges, [e \in TriangleEdges |-> 5], fee) :
        fee \in [TriangleEdges -> {10, 30}]}
    \cup
    {Topology(0..3, SquareEdges, [e \in SquareEdges |-> 5], fee) :
        fee \in {[e \in SquareEdges |-> 10],
                 [e \in SquareEdges |-> IF e = {0, 1} THEN 30 ELSE 10]}}

RouteEndpoints == {<<<<0, 2>>>>, <<<<1, 0>>>>, <<<<0, 2>>, <<2, 1>>>>}

\* num_route_candidates of the route search is 1..MaxRouteCandidates.
MaxRouteCandidates == 3

InitRoute ==
    /\ gen = GenIdle
    /\ graph \in RouteGraphs
    /\ transactions \in {t \in TxLists(RouteEndpoints, {0}) :
                            \A i \in 1..Len(t) : t[i].amount = 2}
    /\ k \in 1..MaxRouteCandidates
    /\ rf = RouteFinderNew(graph)
    /\ hb = None
    /\ best = NoSolution
    /\ result = None
    /\ pc = "find"
    /\ txgen = TxGenIdle
    /\ built = <<>>
    /\ returned = None

NextRoute ==
    \/ FindRouteAttempt
    \/ FindRouteReturn
    \/ FindAllReturn

SpecRoute == InitRoute /\ [][NextRoute]_vars

\* Topologies and transaction lists of optimize().
OptimizeCapacities ==
    {[e \in TriangleEdges |-> 3], [e \in TriangleEdges |-> 5],
     [e \in TriangleEdges |-> IF e = {0, 1} THEN 3 ELSE 5]}

OptimizeFees ==
    {[e \in TriangleEdges |-> 10],
     [e \in TriangleEdges |-> IF e = {0, 2} THEN 30 ELSE 10]}

OptimizeGraphs ==
    {Topology(0..2, TriangleEdges, cap, fee) :
        cap \in OptimizeCapacities, fee \in OptimizeFees}

OptimizeEndpoints ==
    {<<>>, <<<<0, 2>>>>, <<<<0, 2>>, <<0, 2>>>>, <<<<0, 2>>, <<1, 0>>>>}

\* A topology with a node that no channel reaches (a loaded or hand-built
\* graph), and transaction lists with a transaction to that node.
IsolatedGraphs ==
    {Topology(0..3, TriangleEdges, [e \in TriangleEdges |-> 5], fee) :
        fee \in OptimizeFees}

IsolatedEndpoints == {<<<<0, 3>>>>, <<<<0, 2>>, <<0, 3>>>>}

OptimizeCandidateCounts == {1, 2}

\* The path topology 0-1-2-3-4 with capacity 500 and fee 1 on every edge,
\* and one transaction of amount 300 from end to end.
PathEdges == {{0, 1}, {1, 2}, {2, 3}, {3, 4}}

PathGraph ==
    Topology(0..4, PathEdges, [e \in PathEdges |-> 500], [e \in PathEdges |-> 10000])

PathTransactions == <<Transaction(0, 4, 300, 0)>>

\* optimize() is entered: RouteFinder(self.graph, num_route_candidates).
Init ==
    /\ gen = GenIdle
    /\ \/ /\ graph \in OptimizeGraphs
          /\ transactions \in TxLists(OptimizeEndpoints, {0, 1})
          /\ k \in OptimizeCandidateCounts
       \/ /\ graph \in IsolatedGraphs
          /\ transactions \in TxLists(IsolatedEndpoints, {0, 1})
          /\ k \in OptimizeCandidateCounts
       \/ /\ graph = PathGraph
          /\ transactions = PathTransactions
          /\ k \in 1..MaxRouteCandidates
    /\ rf = RouteFinderNew(graph)
    /\ hb = None
    /\ best = NoSolution
    /\ result = None
    /\ pc = "find"
    /\ txgen = TxGenIdle
    /\ built = <<>>
    /\ returned = None

Next ==
    \/ FindRouteAttempt
    \/ FindRouteReturn
    \/ FindAllReturn
    \/ BuildHamiltonian
    \/ SolveRaises
    \/ SolveEmpty
    \/ SolveReturns
    \/ GetRouteInfo

Spec == Init /\ [][Next]_vars

(***************************************************************************)
(* find_all_route_candidates with the generator's first draws fixed, on    *)
(* one transaction list taken in its two orders.                           *)
(***************************************************************************)
\* The noise maps a fixed stream is made of: no noise, and +1.5 on one
\* channel with -1.5 on the others.
OrderNoiseMaps ==
    {[e \in TriangleEdges |-> 0]} \cup
    {[e \in TriangleEdges |-> IF e = d THEN 15 ELSE -15] : d \in TriangleEdges}

\* The calls of _randomize_weights whose draws the stream fixes.
StreamLength == 2

OrderTransactions ==
    {<<Transaction(0, 2, 2, 0), Transaction(1, 0, 2, 1)>>,
     <<Transaction(1, 0, 2, 1), Transaction(0, 2, 2, 0)>>}

InitOrder ==
    /\ gen = GenIdle
    /\ graph \in {Topology(0..2, TriangleEdges, [e \in TriangleEdges |-> 5], fee) :
                     fee \in OptimizeFees}
    /\ transactions \in OrderTransactions
    /\ k = 2
    /\ \E stream \in [1..StreamLength -> OrderNoiseMaps] :
         rf = [RouteFinderNew(graph) EXCEPT !.rng = DefaultRng(stream)]
    /\ hb = None
    /\ best = NoSolution
    /\ result = None
    /\ pc = "find"
    /\ txgen = TxGenIdle
    /\ built = <<>>
    /\ returned = None

NextOrder ==
    \/ FindRouteAttempt
    \/ FindRouteReturn
    \/ FindAllReturn

SpecOrder == InitOrder /\ [][NextOrder]_vars

(***************************************************************************)
(* LightningNetworkGraph.get_statistics between calls of generate() and    *)
(* load_graph().                                                           *)
(***************************************************************************)
\* A caller makes at most MaxQueries calls of get_statistics.
MaxQueries == 2

\* Generators of the statistics scenario: num_nodes (0 makes generate()
\* raise) and num_channels.
StatsNodeCounts == {0, 3}

StatsChannelCounts == {1, 3}

\* Graphs a file read by load_graph can hold.
LoadableGraphs == IsolatedGraphs

NoQuery == [call |-> "none", calls |-> 0]

\* Statistics that report the configured sizes of the generator.
StatisticsOfArguments(self, G) ==
    [num_nodes |-> self.num_nodes, num_edges |-> self.num_channels,
     is_connected |-> IsConnected(G.nodes, G.edges)]

\* The dictionary get_statistics returns for self.graph = G: its keys
\* num_nodes, num_edges, min_degree, max_degree, min_capacity, max_capacity
\* and is_connected.
Statistics(self, G) ==
    LET degrees    == {Cardinality({e \in G.edges : n \in e}) : n \in G.nodes}
        capacities == {G.capacity[e] : e \in G.edges}
    IN  [num_nodes    |-> Cardinality(G.nodes),
         num_edges    |-> Cardinality(G.edges),
         min_degree   |-> CHOOSE d \in degrees : \A c \in degrees : d <= c,
         max_degree   |-> CHOOSE d \in degrees : \A c \in degrees : d >= c,
         min_capacity |-> CHOOSE d \in capacities : \A c \in capacities : d <= c,
         max_capacity |-> CHOOSE d \in capacities : \A c \in capacities : d >= c,
         is_connected |-> IsConnected(G.nodes, G.edges)]

\* get_statistics(), called while no generate() is running: ValueError when
\* self.graph is None.
GetStatistics ==
    /\ gen.pc \in {"new", "done", "raised"}
    /\ returned.calls < MaxQueries
    /\ returned' = IF graph = NoneGraph
                   THEN [call |-> "get_statistics", calls |-> returned.calls + 1,
                         raised |-> TRUE]
                   ELSE [call |-> "get_statistics", calls |-> returned.calls + 1,
                         raised |-> FALSE, value |-> Statistics(gen, graph)]
    /\ UNCHANGED <<txgen, built, gen, graph, transactions, k, rf, hb, best, result, pc>>

\* generate() is called again on the same object.
GenerateAgain ==
    /\ gen.pc \in {"done", "raised"}
    /\ returned.calls < MaxQueries
    /\ gen' = GenNew(gen.num_nodes, gen.num_channels, <<gen.cmin, gen.cmax>>)
    /\ UNCHANGED <<returned, txgen, built, graph, transactions, k, rf, hb, best, result, pc>>

\* load_graph(filepath): self.graph = nx.read_gpickle(filepath).  (Where
\* networkx has no read_gpickle the call raises before the assignment and
\* nothing changes.)
LoadGraph ==
    /\ gen.pc \in {"new", "done", "raised"}
    /\ returned.calls < MaxQueries
    /\ graph' \in LoadableGraphs
    /\ UNCHANGED <<returned, txgen, built, gen, transactions, k, rf, hb, best, result, pc>>

InitStats ==
    /\ \E N \in StatsNodeCounts, E \in StatsChannelCounts, range \in CapacityRanges :
         gen = GenNew(N, E, range)
    /\ graph = NoneGraph
    /\ returned = NoQuery
    /\ txgen = TxGenIdle
    /\ built = <<>>
    /\ transactions = <<>>
    /\ k = 0
    /\ rf = None
    /\ hb = None
    /\ best = [status |-> "none", values |-> [i \in {} |-> 0], objective |-> 0]
    /\ result = None
    /\ pc = "idle"

NextStats ==
    \/ NextGen
    \/ GetStatistics
    \/ GenerateAgain
    \/ LoadGraph

SpecStats == InitStats /\ [][NextStats]_vars

(***************************************************************************)
(* RouteFinder.generate_transactions on a given topology.                  *)
(***************************************************************************)
\* num_transactions is 0..MaxTransactions.
MaxTransactions == 2

\* amount_range arguments tried.
AmountRanges == {<<2, MaxAmount>>, <<MaxAmount, MaxAmount>>}

\* Two draws from the nodes with replacement.
ChoiceWithReplacement(nodes) == nodes \X nodes

\* rng.choice(nodes, size=2, replace=False)
Choice(nodes) == {pair \in nodes \X nodes : pair[1] # pair[2]}

\* rng.integers(amount_range[0], amount_range[1] + 1)
RngIntegers(low, high) == low..(high - 1)

TxGraphs ==
    {Topology(0..2, TriangleEdges, [e \in TriangleEdges |-> 5], [e \in TriangleEdges |-> 10]),
     Topology(0..3, TriangleEdges, [e \in TriangleEdges |-> 5], [e \in TriangleEdges |-> 10]),
     Topology(0..1, {{0, 1}}, [e \in {{0, 1}} |-> 5], [e \in {{0, 1}} |-> 10])}

\* generate_transactions(num_transactions, amount_range, seed) is entered.
InitTx ==
    /\ gen = GenIdle
    /\ graph \in TxGraphs
    /\ transactions = <<>>
    /\ k = 1
    /\ rf = RouteFinderNew(graph)
    /\ hb = None
    /\ best = NoSolution
    /\ result = None
    /\ pc = "generate"
    /\ \E n \in 0..MaxTransactions, range \in AmountRanges :
         txgen = [num_transactions |-> n, amin |-> range[1], amax |-> range[2]]
    /\ built = <<>>
    /\ returned = None

\* One iteration of "for i in range(num_transactions)"; i is the number of
\* transactions appended so far.
GenerateTransaction ==
    /\ pc = "generate"
    /\ Len(transactions) < txgen.num_transactions
    /\ \E pair \in Choice(graph.nodes), amount \in RngIntegers(txgen.amin, txgen.amax + 1) :
         transactions' = Append(transactions,
                                Transaction(pair[1], pair[2], amount, Len(transactions)))
    /\ UNCHANGED <<returned, gen, graph, k, rf, hb, best, result, pc, txgen, built>>

\* generate_transactions returns the list.
GenerateTransactionsReturn ==
    /\ pc = "generate"
    /\ Len(transactions) >= txgen.num_transactions
    /\ pc' = "generated"
    /\ UNCHANGED <<returned, gen, graph, transactions, k, rf, hb, best, result, txgen, built>>

NextTx ==
    \/ GenerateTransaction
    \/ GenerateTransactionsReturn

SpecTx == InitTx /\ [][NextTx]_vars

(***************************************************************************)
(* A HamiltonianBuilder used on its own: constructed on a topology, a      *)
(* transaction list and a candidate dictionary, then asked for the total   *)
(* objective once or several times.                                        *)
(***************************************************************************)
\* Longest candidate list handed to a builder.
BuilderCandidates == 2

\* Calls of build_total_hamiltonian on one builder.
MaxBuilds == 2

\* The non-empty lists of at most BuilderCandidates different simple paths
\* from tx.source to tx.target; the empty list when there is no path.
CandidateLists(G, tx) ==
    LET paths == PathsFrom(G.edges, <<tx.source>>, tx.target)
    IN  IF paths = {} THEN {<<>>}
        ELSE {l \in UNION {[1..m -> paths] : m \in 1..BuilderCandidates} :
                 \A a \in 1..Len(l), b \in 1..Len(l) : a # b => l[a] # l[b]}

\* The candidate dictionaries for a transaction list: a list per id.
CandidateDicts(G, txs) ==
    {rc \in [{txs[i].transaction_id : i \in 1..Len(txs)} -> 
                UNION {CandidateLists(G, txs[i]) : i \in 1..Len(txs)}] :
        \A i \in 1..Len(txs) : rc[txs[i].transaction_id] \in CandidateLists(G, txs[i])}

BuilderEndpoints == {<<<<0, 2>>>>, <<<<0, 2>>, <<1, 0>>>>}

InitBuilder ==
    /\ gen = GenIdle
    /\ \/ /\ graph \in OptimizeGraphs
          /\ transactions \in TxLists(BuilderEndpoints, {0})
       \/ /\ graph \in IsolatedGraphs
          /\ transactions \in TxLists(IsolatedEndpoints, {0})
    /\ k = BuilderCandidates
    /\ \E rc \in CandidateDicts(graph, transactions) :
         rf = [RouteFinderNew(graph) EXCEPT !.all_routes = rc,
                                            !.tx_idx = Len(transactions) + 1]
    /\ hb = None
    /\ best = NoSolution
    /\ result = None
    /\ pc = "construct"
    /\ txgen = TxGenIdle
    /\ built = <<>>
    /\ returned = None

\* HamiltonianBuilder(graph, transactions, route_candidates, alpha, beta)
NewHamiltonianBuilder ==
    /\ pc = "construct"
    /\ \E args \in WeightArguments :
         hb' = HamiltonianBuilderNew(transactions, rf.all_routes, args[1], args[2])
    /\ pc' = "builder"
    /\ UNCHANGED <<returned, gen, graph, transactions, k, rf, best, result, txgen, built>>

\* One call of build_total_hamiltonian on the builder.
BuildTotalHamiltonian ==
    /\ pc = "builder"
    /\ Len(built) < MaxBuilds
    /\ LET h == IF NeedsVariables(hb) THEN CreateVariables(hb) ELSE hb
       IN  /\ hb' = h
           /\ \E outcome \in BuildOutcomes(transactions, rf.all_routes, h) :
                IF outcome = "raised"
                THEN pc' = "raised" /\ built' = built
                ELSE pc' = pc /\
                     built' = Append(built, Hamiltonians(graph, transactions,
                                                         rf.all_routes, h))
    /\ UNCHANGED <<returned, gen, graph, transactions, k, rf, best, result, txgen>>

NextBuilder ==
    \/ NewHamiltonianBuilder
    \/ BuildTotalHamiltonian

SpecBuilder == InitBuilder /\ [][NextBuilder]_vars

(***************************************************************************)
(* Properties.                                                             *)
(***************************************************************************)
\* optimize() returned what _parse_result decoded.
Decoded == pc = "done" /\ best.status = "solved"

\* The positions of the transaction list.
TxPositions == 1..Len(transactions)

\* The route traverses the channel e, in either direction.
Traverses(route, e) ==
    \E h \in 1..(Len(route) - 1) : {route[h], route[h + 1]} = e

\* The amounts of the transactions whose selected route traverses e.
ChannelLoad(e) ==
    SumFn([i \in {j \in TxPositions :
                    /\ transactions[j].transaction_id \in DOMAIN result.route_paths
                    /\ Traverses(result.route_paths[transactions[j].transaction_id], e)}
             |-> transactions[i].amount])

EveryTransactionRouted ==
    \A i \in TxPositions :
        transactions[i].transaction_id \in DOMAIN result.route_paths

\* C1: the feasibility flag of a decoded result is true exactly when every
\* transaction of the list has a selected route and, on every channel of
\* the topology, the amounts of the transactions whose selected route
\* traverses the channel sum to at most the channel's capacity.
C1_FeasibleIffRoutedAndWithinCapacity ==
    Decoded =>
        (result.is_feasible <=>
            /\ EveryTransactionRouted
            /\ \A e \in graph.edges : ChannelLoad(e) <= graph.capacity[e])

\* Two transactions are routed through one channel whose capacity is below
\* the sum of their amounts, the solver reports the low objective 0, and
\* the result is infeasible.
C1_Witness ==
    /\ Decoded
    /\ Len(transactions) = 2
    /\ EveryTransactionRouted
    /\ \E e \in graph.edges :
         /\ \A i \in TxPositions :
              Traverses(result.route_paths[transactions[i].transaction_id], e)
         /\ graph.capacity[e] < transactions[1].amount + transactions[2].amount
         /\ graph.capacity[e] >= transactions[1].amount
    /\ result.objective_value = Finite(0)
    /\ ~result.is_feasible

\* The candidate indices of transaction tx whose variable is above 0.5.
AboveHalf(tx) ==
    {j \in 0..(Len(rf.all_routes[tx.transaction_id]) - 1) :
        best.values[<<tx.transaction_id, j>>] > 5}

C3_SolverFailureGivesEmptyResult ==
    best.status \in {"raised", "empty"} =>
        /\ pc = "done"
        /\ ~result.is_feasible
        /\ result.objective_value.inf
        /\ DOMAIN result.selected_routes = {}
        /\ DOMAIN result.route_paths = {}
        /\ result.statistics.num_selected_routes = 0
        /\ result.statistics.total_hops = 0
        /\ result.statistics.avg_hops.num = 0
        /\ result.statistics.total_fee = 0
        /\ result.statistics.avg_fee.num = 0

\* The solver raised on a problem with two routed transactions.
C3_Witness ==
    /\ pc = "done"
    /\ best.status = "raised"
    /\ Len(transactions) = 2
    /\ hb.num_route_candidates = 2

\* The candidate lists find_route_candidates has returned so far, and the
\* list it is building.
ReturnedLists == {rf.all_routes[id] : id \in DOMAIN rf.all_routes}

NoRepeatedRoute(routes) ==
    \A a \in 1..Len(routes), b \in 1..Len(routes) : routes[a] = routes[b] => a = b

\* C4: a list returned by find_route_candidates (and the list under
\* construction) holds at most k routes, no two of them the same node
\* sequence, whatever noise was drawn.
C4_AtMostKDistinctRoutes ==
    pc \in {"find", "build"} =>
        \A routes \in ReturnedLists \cup {rf.routes} :
            Len(routes) <= k /\ NoRepeatedRoute(routes)

\* With k = 3 a search returned two routes: between the two nodes there are
\* only two simple paths, so one of the three attempts found a path again.
C4_Witness ==
    /\ pc = "find"
    /\ k = 3
    /\ rf.attempt = 3
    /\ Len(rf.routes) = 2
    /\ rf.G_temp # graph.weight

NoRepeatedNode(route) ==
    \A a \in 1..Len(route), b \in 1..Len(route) : route[a] = route[b] => a = b

AlongChannels(route) ==
    \A h \in 1..(Len(route) - 1) :
        route[h] # route[h + 1] /\ {route[h], route[h + 1]} \in graph.edges

\* The fee summed along a node sequence of the base topology.
FeeAlong(route) ==
    SumFn([h \in 1..(Len(route) - 1) |-> graph.fee[{route[h], route[h + 1]}]])

\* The node sequences from s to t along channels, of at most `hops`
\* channels (walks: nodes may repeat).
RECURSIVE WalksTo(_, _, _)
WalksTo(walk, t, hops) ==
    (IF Last(walk) = t THEN {walk} ELSE {})
    \cup (IF hops = 0 THEN {}
          ELSE UNION {WalksTo(Append(walk, n), t, hops - 1) :
                         n \in {m \in graph.nodes : {Last(walk), m} \in graph.edges
                                                    /\ m # Last(walk)}})

\* C5: in a connected topology, every transaction with source # target
\* gets at least one candidate; every candidate starts at the source, ends
\* at the target, repeats no node and follows channels; candidate 0 has the
\* least total fee of all ways from source to target.
C5_CandidatesAreSimplePathsFirstCheapest ==
    pc \in {"find", "build"} =>
        \A i \in TxPositions :
            LET tx == transactions[i]
            IN  (tx.transaction_id \in DOMAIN rf.all_routes
                 /\ tx.source # tx.target
                 /\ IsConnected(graph.nodes, graph.edges)) =>
                    LET routes == rf.all_routes[tx.transaction_id]
                    IN  /\ Len(routes) >= 1
                        /\ \A c \in 1..Len(routes) :
                             /\ routes[c][1] = tx.source
                             /\ Last(routes[c]) = tx.target
                             /\ NoRepeatedNode(routes[c])
                             /\ AlongChannels(routes[c])
                        /\ \A w \in WalksTo(<<tx.source>>, tx.target,
                                            Cardinality(graph.nodes)) :
                             FeeAlong(routes[1]) <= FeeAlong(w)

\* Candidate 0 is the two-hop route because it is cheaper than the direct
\* channel, and a second candidate was found as well.
C5_Witness ==
    /\ pc = "build"
    /\ \E id \in DOMAIN rf.all_routes :
         /\ Len(rf.all_routes[id]) = 2
         /\ Len(rf.all_routes[id][1]) = 3
         /\ Len(rf.all_routes[id][2]) = 2
         /\ FeeAlong(rf.all_routes[id][1]) < FeeAlong(rf.all_routes[id][2])

\* The edge count of the Barabasi-Albert backbone for the generator's
\* parameters: m edges of the star and m per later node.
BackboneEdges ==
    LET m == AttachmentParameter(gen.num_nodes, gen.num_channels)
    IN  m * (gen.num_nodes - m)

\* C6: after generate() the graph has exactly N nodes and every edge
\* carries capacity, fee and weight with cmin <= capacity <= cmax,
\* fee >= 0.1 * 0.01 > 0 and weight = fee; edges added by the random-edge
\* step and edges put back after a reverted removal included.
C6_GeneratedAttributes ==
    gen.pc = "done" =>
        /\ Cardinality(graph.nodes) = gen.num_nodes
        /\ graph.edges = gen.G
        /\ DOMAIN graph.capacity = graph.edges
        /\ DOMAIN graph.fee = graph.edges
        /\ DOMAIN graph.weight = graph.edges
        /\ \A e \in graph.edges :
             /\ gen.cmin <= graph.capacity[e] /\ graph.capacity[e] <= gen.cmax
             /\ graph.fee[e] >= 10 /\ graph.fee[e] > 0
             /\ graph.weight[e] = graph.fee[e]

\* A generated graph with edges from the random-edge step, one of them
\* with the fee at its floor.
C6_Witness ==
    /\ gen.pc = "done"
    /\ Cardinality(graph.edges) > BackboneEdges
    /\ \E e \in graph.edges, f \in graph.edges :
         graph.fee[e] = 10 /\ graph.fee[f] = 1000

SimpleEdges(nodes, edges) ==
    \A e \in edges : e \subseteq nodes /\ Cardinality(e) = 2

\* C7: the generated graph is connected and simple.  While edges are
\* removed the graph stays connected, at most (backbone edges - E) edges
\* are removed, and the loop always has a next step or an end: when no edge
\* can go, generation ends with more than E edges.
C7_ConnectedSimpleRemoval ==
    /\ gen.pc \in {"add", "remove", "attrs", "done"} =>
         /\ IsConnected(GenNodes(gen), gen.G)
         /\ SimpleEdges(GenNodes(gen), gen.G)
    /\ gen.pc = "done" =>
         /\ IsConnected(graph.nodes, graph.edges)
         /\ SimpleEdges(graph.nodes, graph.edges)
    /\ gen.pc = "remove" =>
         /\ gen.removed <= gen.num_edges
         /\ gen.num_edges = BackboneEdges - gen.num_channels
         /\ Cardinality(gen.G) = BackboneEdges - gen.removed
         /\ gen.pending \subseteq gen.G
         /\ (ENABLED RemoveRandomEdge) \/ (ENABLED RemoveRandomEdgesReturn)

\* Generation ended with more edges than asked for: every removal tried
\* would have disconnected the graph and was reverted.
C7_Witness ==
    /\ gen.pc = "done"
    /\ Cardinality(graph.edges) > gen.num_channels
    /\ Cardinality(graph.edges) = BackboneEdges
    /\ IsConnected(graph.nodes, graph.edges)

\* The solver returned an assignment of 0 and 1 only.
BinaryAssignment ==
    best.status = "solved" /\ \A var \in DOMAIN best.values : best.values[var] \in {0, 10}

\* The 0/1 value of the variable of transaction id, candidate j.
X(id, j) == best.values[<<id, j>>] \div 10

\* The (position, candidate index) pairs of the candidate set.
CandidatePairs ==
    {<<i, j>> \in TxPositions \X (0..(k - 1)) :
        /\ transactions[i].transaction_id \in DOMAIN rf.all_routes
        /\ j < Len(rf.all_routes[transactions[i].transaction_id])}

CandidateRoute(pair) == rf.all_routes[transactions[pair[1]].transaction_id][pair[2] + 1]

\* sum of amount_i * x[i][j] over the candidates that traverse e
UsageOn(e) ==
    SumFn([pair \in {q \in CandidatePairs : Traverses(CandidateRoute(q), e)} |->
             transactions[pair[1]].amount
             * X(transactions[pair[1]].transaction_id, pair[2])])

\* The capacity term of the built objective on the solver's assignment.
BuiltCapacityTerm ==
    CapacityHamiltonian(graph, transactions, rf.all_routes, hb.num_transactions,
                        hb.num_route_candidates,
                        [var \in DOMAIN best.values |-> best.values[var] \div 10])

\* The channels that at least one candidate route traverses.
TraversedChannels ==
    {e \in graph.edges : \E q \in CandidatePairs : Traverses(CandidateRoute(q), e)}

\* C8 as claimed: the capacity term is the sum over every channel of the
\* topology of (channel_usage - capacity)^2.
C8_SumOverEveryChannel ==
    (pc = "done" /\ BinaryAssignment) =>
        BuiltCapacityTerm =
            SumFn([e \in graph.edges |->
                     (UsageOn(e) - graph.capacity[e]) * (UsageOn(e) - graph.capacity[e])])

\* C8 as amended: the capacity term is the sum of
\* (channel_usage - capacity)^2 over the channels that at least one
\* candidate route traverses (in either direction); a channel that no
\* candidate traverses adds nothing.  The square penalises usage below the
\* capacity as much as usage above it.
C8_SumOverTraversedChannels ==
    (pc = "done" /\ BinaryAssignment) =>
        BuiltCapacityTerm =
            SumFn([e \in TraversedChannels |->
                     (UsageOn(e) - graph.capacity[e]) * (UsageOn(e) - graph.capacity[e])])

\* A channel is traversed as (v, u) by one selected candidate and as (u, v)
\* by another, its usage is below its capacity, and the term is positive.
C8_Witness ==
    /\ pc = "done" /\ BinaryAssignment
    /\ \E e \in TraversedChannels, p \in CandidatePairs, q \in CandidatePairs :
         /\ RouteUsesChannel(CandidateRoute(p), EdgeEnds(e)[1], EdgeEnds(e)[2])
         /\ RouteUsesChannel(CandidateRoute(q), EdgeEnds(e)[1], EdgeEnds(e)[2])
         /\ \E h \in 1..(Len(CandidateRoute(p)) - 1) :
              <<CandidateRoute(p)[h + 1], CandidateRoute(p)[h]>> = EdgeEnds(e)
         /\ \E h \in 1..(Len(CandidateRoute(q)) - 1) :
              <<CandidateRoute(q)[h], CandidateRoute(q)[h + 1]>> = EdgeEnds(e)
         /\ X(transactions[p[1]].transaction_id, p[2]) = 1
         /\ UsageOn(e) > 0 /\ UsageOn(e) < graph.capacity[e]
    /\ BuiltCapacityTerm > 0

\* The transactions that have at least one candidate.
Routable ==
    {i \in TxPositions :
        /\ transactions[i].transaction_id \in DOMAIN rf.all_routes
        /\ Len(rf.all_routes[transactions[i].transaction_id]) >= 1}

\* The number of candidates of the transaction at position i set to 1.
OnesOf(i) ==
    SumFn([j \in 0..(Len(rf.all_routes[transactions[i].transaction_id]) - 1) |->
             X(transactions[i].transaction_id, j)])

BuiltRouteTerm ==
    RouteHamiltonian(transactions, rf.all_routes, hb.num_route_candidates, hb.alpha,
                     [var \in DOMAIN best.values |-> best.values[var] \div 10])

\* C9: the route-selection term is alpha times the sum, over the
\* transactions with at least one candidate, of (the sum of the
\* transaction's candidate variables - 1)^2; transactions without a
\* candidate add nothing; so on a binary assignment the term is 0 exactly
\* when every routable transaction has exactly one candidate set to 1.
C9_RouteTerm ==
    (pc = "done" /\ BinaryAssignment) =>
        /\ BuiltRouteTerm =
             hb.alpha * SumFn([i \in Routable |-> (OnesOf(i) - 1) * (OnesOf(i) - 1)])
        /\ (BuiltRouteTerm = 0) <=> (\A i \in Routable : OnesOf(i) = 1)

\* One transaction has two candidates, both set to 1, the other has no
\* candidate at all: the term is alpha * 1.
C9_Witness ==
    /\ pc = "done" /\ BinaryAssignment
    /\ Len(transactions) = 2
    /\ Cardinality(Routable) = 1
    /\ \E i \in Routable : OnesOf(i) = 2
    /\ BuiltRouteTerm = hb.alpha

BuiltDistanceTerm ==
    DistanceHamiltonian(transactions, rf.all_routes, hb.num_route_candidates, hb.beta,
                        [var \in DOMAIN best.values |-> best.values[var] \div 10])

\* sum of hops(route_ij) * x[i][j] over every existing candidate
HopsSelected ==
    SumFn([pair \in CandidatePairs |->
             (Len(CandidateRoute(pair)) - 1)
             * X(transactions[pair[1]].transaction_id, pair[2])])

\* C10: the distance term is beta times the sum, over every transaction
\* and every existing candidate of it, of hops * x[i][j], hops being the
\* number of nodes of the route minus 1.  (Fractions num/den are compared
\* by cross-multiplication.)
C10_DistanceTerm ==
    (pc = "done" /\ BinaryAssignment) =>
        BuiltDistanceTerm.num * hb.beta.den
            = hb.beta.num * HopsSelected * BuiltDistanceTerm.den

\* With the default beta = mean(amount)^2 * 100 and a one-hop and a two-hop
\* candidate both set to 1, the term is 3 * beta > 0.
C10_Witness ==
    /\ pc = "done" /\ BinaryAssignment
    /\ hb.beta.den > 1
    /\ HopsSelected = 3
    /\ BuiltDistanceTerm.num = 3 * hb.beta.num
    /\ BuiltDistanceTerm.num > 0

\* The terms of the objective on an assignment x of 0/1 to the variables,
\* written from the candidate set: the usage of channel e, ...
UsageAt(x, e) ==
    SumFn([pair \in {q \in CandidatePairs : Traverses(CandidateRoute(q), e)} |->
             transactions[pair[1]].amount
             * x[<<transactions[pair[1]].transaction_id, pair[2]>>]])

\* ... the capacity term over the channels some candidate traverses, ...
CapacityTermAt(x) ==
    SumFn([e \in TraversedChannels |->
             (UsageAt(x, e) - graph.capacity[e]) * (UsageAt(x, e) - graph.capacity[e])])

\* ... the number of candidates of the transaction at position i set to 1, ...
OnesAt(x, i) ==
    SumFn([j \in 0..(Len(rf.all_routes[transactions[i].transaction_id]) - 1) |->
             x[<<transactions[i].transaction_id, j>>]])

\* ... the route-selection term with its weight alpha, ...
RouteTermAt(x) ==
    hb.alpha * SumFn([i \in Routable |-> (OnesAt(x, i) - 1) * (OnesAt(x, i) - 1)])

\* ... and the hops of the candidates set to 1 (the distance term is beta
\* times this).
HopsAt(x) ==
    SumFn([pair \in CandidatePairs |->
             (Len(CandidateRoute(pair)) - 1)
             * x[<<transactions[pair[1]].transaction_id, pair[2]>>]])

\* C11: the total returned by build_total_hamiltonian equals, on every
\* binary assignment, capacity term + alpha-weighted route term +
\* beta-weighted distance term (each weight applied once), and the entries
\* 'capacity', 'route', 'distance', 'total' of the returned dictionary are
\* these three terms and that total.
C11_TotalIsSumOfTerms ==
    \A b \in 1..Len(built) :
        LET r == built[b]
        IN  /\ r.hamiltonians.total = r.H_total
            /\ \A x \in DOMAIN r.H_total :
                 /\ r.hamiltonians.capacity[x] = CapacityTermAt(x)
                 /\ r.hamiltonians.route[x] = RouteTermAt(x)
                 /\ r.hamiltonians.distance[x].num * hb.beta.den
                      = hb.beta.num * HopsAt(x) * r.hamiltonians.distance[x].den
                 /\ r.H_total[x].num * hb.beta.den
                      = ((CapacityTermAt(x) + RouteTermAt(x)) * hb.beta.den
                         + hb.beta.num * HopsAt(x)) * r.H_total[x].den

\* A returned total with, on one assignment, all three terms positive, the
\* weight beta being the default mean(amount)^2 * 100 of two amounts.
C11_Witness ==
    /\ Len(built) >= 1
    /\ Len(transactions) = 2
    /\ hb.beta.den > 1
    /\ \E x \in DOMAIN built[1].H_total :
         /\ built[1].hamiltonians.capacity[x] > 0
         /\ built[1].hamiltonians.route[x] > 0
         /\ built[1].hamiltonians.distance[x].num > 0
         /\ built[1].H_total[x].num
              > (built[1].hamiltonians.capacity[x] + built[1].hamiltonians.route[x])
                * built[1].H_total[x].den

\* The variables x[i][j] of the matrix with j >= c_i, c_i being the number
\* of candidates of transaction i.
BeyondCandidates ==
    {var \in Variables(hb.num_transactions, hb.num_route_candidates) :
        \E i \in TxPositions :
            /\ transactions[i].transaction_id = var[1]
            /\ var[1] \in DOMAIN rf.all_routes
            /\ var[2] >= Len(rf.all_routes[var[1]])}

\* The three terms and the total objective of the builder hb on x.
ObjectiveAt(x) ==
    LET K == hb.num_route_candidates
        H_capacity == CapacityHamiltonian(graph, transactions, rf.all_routes,
                                          hb.num_transactions, K, x)
        H_route    == RouteHamiltonian(transactions, rf.all_routes, K, hb.alpha, x)
        H_distance == DistanceHamiltonian(transactions, rf.all_routes, K, hb.beta, x)
    IN  [capacity |-> H_capacity, route |-> H_route, distance |-> H_distance,
         total |-> TotalHamiltonian(H_capacity, H_route, H_distance)]

\* C12: a variable x[i][j] with j >= c_i is in none of the three terms
\* (flipping it changes neither a term nor the total objective, on every
\* binary assignment), and the decoder does not read it (whatever value the
\* solver reports for it, the decoded result is the same).
C12_VariablesBeyondCandidatesUnused ==
    /\ pc = "solve" =>
         \A var \in BeyondCandidates :
            \A x \in Assignments(hb.num_transactions, hb.num_route_candidates) :
                ObjectiveAt([x EXCEPT ![var] = 1 - x[var]]) = ObjectiveAt(x)
    /\ Decoded =>
         \A var \in BeyondCandidates, value \in SolverValues :
            ParseResult(graph, transactions, rf.all_routes, hb.num_route_candidates,
                        [values |-> [best.values EXCEPT ![var] = value],
                         objective |-> best.objective]) = result

\* A transaction with one candidate in a matrix of two columns: its second
\* variable is reported as 1, the first as 0, and it is decoded as having
\* no route.
C12_Witness ==
    /\ Decoded
    /\ hb.num_route_candidates = 2
    /\ \E var \in BeyondCandidates :
         /\ Len(rf.all_routes[var[1]]) = 1
         /\ best.values[var] = 10
         /\ best.values[<<var[1], 0>>] = 0
         /\ var[1] \notin DOMAIN result.selected_routes

\* C13: on one builder every call of build_total_hamiltonian returns the
\* polynomials of the first call, over the variables of the first call:
\* the generator issues one matrix per builder, made by the first call.
C13_BuildIsIdempotent ==
    pc \in {"builder", "raised"} =>
        /\ hb.arrays <= 1
        /\ hb.x = hb.arrays
        /\ \A b \in 1..Len(built) :
             /\ built[b] = built[1]
             /\ built[b].x = 1

\* The builder was asked twice and answered twice.
C13_Witness ==
    /\ pc = "builder"
    /\ Len(built) = 2
    /\ hb.arrays = 1
    /\ built[2].H_total = built[1].H_total
    /\ \E x \in DOMAIN built[1].H_total : built[1].H_total[x].num > 0

\* The transactions (by position) that have a selected route.
SelectedPositions ==
    {i \in TxPositions : transactions[i].transaction_id \in DOMAIN result.selected_routes}

SelectedPath(i) == result.route_paths[transactions[i].transaction_id]

\* C14: total_hops is the sum over the selected routes of (nodes - 1),
\* total_fee the sum of the fee of every channel along every selected
\* route, num_selected_routes the number of transactions with a selected
\* route.
C14_TotalsOverSelectedRoutes ==
    Decoded =>
        /\ DOMAIN result.route_paths = DOMAIN result.selected_routes
        /\ result.statistics.total_hops
             = SumFn([i \in SelectedPositions |-> Len(SelectedPath(i)) - 1])
        /\ result.statistics.total_fee
             = SumFn([i \in SelectedPositions |-> FeeAlong(SelectedPath(i))])
        /\ result.statistics.num_selected_routes = Cardinality(SelectedPositions)

\* Two selected routes, one of one hop over a channel of fee 0.003 and one
\* of two hops over channels of fee 0.001: 3 hops, fee 0.005.
C14_Witness ==
    /\ Decoded
    /\ Cardinality(SelectedPositions) = 2
    /\ \E i \in SelectedPositions, j \in SelectedPositions :
         /\ Len(SelectedPath(i)) = 2 /\ FeeAlong(SelectedPath(i)) = 30
         /\ Len(SelectedPath(j)) = 3 /\ FeeAlong(SelectedPath(j)) = 20
    /\ result.statistics.total_hops = 3
    /\ result.statistics.total_fee = 50
    /\ result.statistics.num_selected_routes = 2

\* C15 as claimed: avg_hops and avg_fee are averages across the selected
\* routes: avg_hops * (number of selected routes) = total_hops and
\* avg_fee * (number of selected routes) = total_fee, also when some
\* transactions have no selected route.
C15_AveragesOverSelectedRoutes ==
    Decoded =>
        /\ result.statistics.avg_hops.num * result.statistics.num_selected_routes
             = result.statistics.total_hops * result.statistics.avg_hops.den
        /\ result.statistics.avg_fee.num * result.statistics.num_selected_routes
             = result.statistics.total_fee * result.statistics.avg_fee.den

\* The path scenario: topology 0-1-2-3-4, one transaction 0 -> 4.
OnPath == graph = PathGraph /\ transactions = PathTransactions

\* C16: on the path topology, for every k >= 1 and all noise draws, the
\* candidates of transaction 0 are exactly the one route [0,1,2,3,4], and a
\* result that selects it is feasible.
C16_PathScenario ==
    OnPath =>
        /\ pc = "find" => \A r \in 1..Len(rf.routes) :
                             r = 1 /\ rf.routes[r] = <<0, 1, 2, 3, 4>>
        /\ 0 \in DOMAIN rf.all_routes => rf.all_routes[0] = <<<<0, 1, 2, 3, 4>>>>
        /\ (Decoded /\ 0 \in DOMAIN result.selected_routes) =>
             /\ result.route_paths[0] = <<0, 1, 2, 3, 4>>
             /\ result.is_feasible

\* The search ran all its attempts with perturbed weights (k = 3), the one
\* route was selected, and the result is feasible.
C16_Witness ==
    /\ OnPath
    /\ k = 3
    /\ Decoded
    /\ rf.all_routes[0] = <<<<0, 1, 2, 3, 4>>>>
    /\ result.selected_routes = (0 :> 0)
    /\ result.is_feasible

\* C17 as claimed: a generator with num_nodes <= 0 is rejected at
\* construction, so none is ever constructed and generate() never runs on
\* one.
C17_InvalidNodeCountRejected ==
    gen.pc \in {"new", "add", "remove", "attrs", "done", "raised"} => gen.num_nodes > 0

\* C18: generate_transactions(n, (amin, amax), seed) returns n
\* transactions with the ids 0 .. n-1 in list order, each with source and
\* target two different nodes of the graph and amin <= amount <= amax.
C18_GeneratedTransactions ==
    /\ pc \in {"generate", "generated"} =>
         \A i \in 1..Len(transactions) :
            /\ transactions[i].transaction_id = i - 1
            /\ transactions[i].source # transactions[i].target
            /\ transactions[i].source \in graph.nodes
            /\ transactions[i].target \in graph.nodes
            /\ txgen.amin <= transactions[i].amount
            /\ transactions[i].amount <= txgen.amax
    /\ pc = "generated" => Len(transactions) = txgen.num_transactions

\* Two transactions were returned, one with the least and one with the
\* greatest amount of the range, between the same two nodes in opposite
\* directions.
C18_Witness ==
    /\ pc = "generated"
    /\ txgen.num_transactions = 2
    /\ txgen.amin < txgen.amax
    /\ transactions[1].amount = txgen.amin
    /\ transactions[2].amount = txgen.amax
    /\ transactions[1].source = transactions[2].target
    /\ transactions[1].target = transactions[2].source

\* The transactions (by position) whose source and target are joined by no
\* path of the topology.
Unroutable ==
    {i \in TxPositions :
        PathsFrom(graph.edges, <<transactions[i].source>>, transactions[i].target) = {}}

\* The transaction list without its unroutable transactions.
RoutableTransactions ==
    LET Keep(i) == i \notin Unroutable
        RECURSIVE Filter(_)
        Filter(i) == IF i > Len(transactions) THEN <<>>
                     ELSE (IF Keep(i) THEN <<transactions[i]>> ELSE <<>>) \o Filter(i + 1)
    IN  Filter(1)

C20_WeightsAccumulate ==
    [][(pc = "find" /\ rf.attempt >= 1 /\ rf'.attempt = rf.attempt + 1) =>
          \E noise \in [graph.edges -> NoiseDraws] :
             rf'.G_temp = [e \in graph.edges |->
                             (rf.G_temp[e] * Multiplier(noise[e])) \div One]]_vars

\* C20 as amended: each perturbing attempt sets every edge's working
\* weight to the edge's fee times a multiplier max(0.1, 1 + noise) drawn
\* for that attempt and edge; perturbations do not accumulate: whatever the
\* number of attempts made, the working weight is the fee or the fee times
\* one multiplier.
C20_WeightsFromFee ==
    pc = "find" =>
        /\ rf.attempt <= 1 => rf.G_temp = graph.weight
        /\ rf.attempt >= 2 =>
             \E noise \in [graph.edges -> NoiseDraws] :
                rf.G_temp = [e \in graph.edges |->
                               (graph.fee[e] * Multiplier(noise[e])) \div One]

\* Three attempts were made, two of them perturbing, and the last left an
\* edge at 2.5 times its fee.
C20_Witness ==
    /\ pc = "find"
    /\ rf.attempt = 3
    /\ \E e \in graph.edges : rf.G_temp[e] * 10 = graph.fee[e] * 25

\* The candidate lists find_route_candidates can return for tx from the
\* attempt `attempt` on, with the routes found so far and the generator in
\* state rng.
RECURSIVE SearchFrom(_, _, _, _)
SearchFrom(tx, attempt, routes, rng) ==
    IF attempt >= k \/ Len(routes) >= k THEN {routes}
    ELSE LET noises == IF attempt = 0 THEN {[e \in graph.edges |-> 0]}
                       ELSE NormalDraws(rng, graph.edges)
             next   == IF attempt = 0 THEN rng ELSE [rng EXCEPT !.calls = @ + 1]
         IN  UNION {LET w     == IF attempt = 0 THEN graph.weight
                                 ELSE RandomizeWeights(graph, noise)
                        paths == FindShortestPath(graph.edges, w, tx)
                    IN  IF paths = {} THEN SearchFrom(tx, attempt + 1, routes, next)
                        ELSE UNION {SearchFrom(tx, attempt + 1, AcceptPath(routes, p), next) :
                                       p \in paths} :
                    noise \in noises}

\* C21 as claimed: the candidate set of a transaction does not depend on
\* the transactions searched before it: it is what the same RouteFinder
\* gives when the transaction is searched first.
C21_SearchesIndependent ==
    pc = "build" =>
        \A i \in TxPositions :
            rf.all_routes[transactions[i].transaction_id]
                \in SearchFrom(transactions[i], 0, <<>>, DefaultRng(rf.rng.stream))


\* C22: no step of the route search, of get_route_info, of the construction
\* of the objective or of the decoding (_parse_result with its statistics
\* and feasibility check) changes the nodes, edges, capacities, fees or
\* weights of the base graph; the perturbed weights are in G_temp only.
C22_BaseTopologyReadOnly == [][graph' = graph]_vars

\* During the search of the second transaction the working copy carries
\* perturbed weights while the base graph still has weight = fee.
C22_Witness ==
    /\ pc = "find"
    /\ rf.tx_idx = 2
    /\ rf.attempt > 0
    /\ \E e \in graph.edges : rf.G_temp[e] # graph.weight[e]
    /\ graph.weight = graph.fee

\* The edges of the Barabasi-Albert backbone _add_random_edges started
\* from: those present now less the additions counted so far.
Backbone == Cardinality(gen.G) - gen.added

\* C23: while _add_random_edges runs, the backbone has fewer than E edges,
\* every iteration counts one attempt and there are at most 10 * (E -
\* backbone) of them; an edge is added only between two distinct nodes not
\* yet joined (the graph stays simple and grows by exactly the counted
\* additions), and the edge count never exceeds E.  When the loop ends the
\* count is E, or the attempts are used up and the count is below E; the
\* generation then completes with exactly these edges.
C23_AddRandomEdgesBounded ==
    [][/\ gen'.pc = "add" =>
            /\ Backbone' < gen'.num_channels
            /\ gen'.attempts <= 10 * (gen'.num_channels - Backbone')
            /\ gen'.added <= gen'.attempts
            /\ Cardinality(gen'.G) <= gen'.num_channels
            /\ \A e \in gen'.G : e \subseteq GenNodes(gen') /\ Cardinality(e) = 2
       /\ gen.pc = "add" /\ gen'.pc = "add" =>
            /\ gen'.attempts = gen.attempts + 1
            /\ gen.G \subseteq gen'.G
            /\ Backbone' = Backbone
       /\ gen.pc = "add" /\ gen'.pc = "attrs" =>
            /\ gen'.G = gen.G
            /\ \/ Cardinality(gen.G) = gen.num_channels
               \/ /\ gen.attempts = 10 * (gen.num_channels - Backbone)
                  /\ Cardinality(gen.G) < gen.num_channels
       /\ gen.pc = "attrs" /\ gen'.pc = "done" => graph'.edges = gen.G
      ]_vars

\* The attempts are used up after at least one addition, with edges still
\* missing.
C23_Witness ==
    /\ gen.pc = "add"
    /\ gen.attempts = 10 * (gen.num_channels - Backbone)
    /\ gen.added > 0
    /\ gen.added < gen.num_edges

\* A step that is a call of get_statistics.
GetStatisticsCall ==
    /\ returned'.call = "get_statistics"
    /\ returned'.calls = returned.calls + 1

\* C24: a call of get_statistics changes neither the graph nor the
\* generator; it raises when no graph was generated or loaded yet, and
\* otherwise reports the node count, the edge count and the connectivity
\* of the graph as it is at the call, whatever was generated, loaded or
\* reported before.
C24_StatisticsOnDemand ==
    [][GetStatisticsCall =>
          /\ graph' = graph
          /\ gen' = gen
          /\ returned'.raised = (graph = NoneGraph)
          /\ ~returned'.raised =>
                /\ returned'.value.num_nodes = Cardinality(graph.nodes)
                /\ returned'.value.num_edges = Cardinality(graph.edges)
                /\ returned'.value.is_connected = IsConnected(graph.nodes, graph.edges)
      ]_vars

\* The second call reports a loaded graph (four nodes, not connected) on a
\* generator configured for three nodes whose generation has completed.
C24_Witness ==
    /\ gen.pc = "done"
    /\ gen.num_nodes = 3
    /\ returned.call = "get_statistics"
    /\ returned.calls = 2
    /\ ~returned.raised
    /\ returned.value.num_nodes = 4
    /\ ~returned.value.is_connected

\* C25: what the solver gave changes in one step only, the step that
\* leaves step 3 of optimize() and ends the call; before it no solve was
\* made, the candidates of every transaction were searched and the
\* objective was built; when the solve raised or gave no solution the
\* call ends at once with the empty result.
C25_SolverInvokedOnce ==
    [][/\ pc = "solve" => pc' = "done"
       /\ best' # best =>
            /\ pc = "solve"
            /\ best = NoSolution
            /\ rf.tx_idx > Len(transactions)
            /\ ~NeedsVariables(hb)
            /\ best'.status \in {"raised", "empty"} => result' = CreateEmptyResult
      ]_vars

\* optimize() on two transactions has ended after a solve that raised.
C25_Witness ==
    /\ pc = "done"
    /\ Len(transactions) = 2
    /\ best.status = "raised"
    /\ result = CreateEmptyResult

\* Every transaction joins two different nodes of the graph.
ValidTransactions ==
    \A i \in TxPositions :
        /\ transactions[i].source \in graph.nodes
        /\ transactions[i].target \in graph.nodes
        /\ transactions[i].source # transactions[i].target

\* C26: on a valid transaction list (the empty list and lists without any
\* candidate included) optimize() never ends with an exception.
C26_NeverRaises == ValidTransactions => pc # "raised"

\* No two transactions of the list have the same id.
DistinctIds ==
    \A i, j \in TxPositions :
        transactions[i].transaction_id = transactions[j].transaction_id => i = j

\* C27: when the ids are pairwise distinct, every row x[tx_id] that the
\* terms and the decoding index lies inside the matrix of
\* len(transactions) rows, whatever the ids are.
C27_RowsInsideMatrix ==
    (DistinctIds /\ transactions # <<>> /\ pc \in {"solve", "done", "raised"}) =>
        RowsUsed(transactions, rf.all_routes, hb.num_route_candidates)
            \subseteq 0..(hb.num_transactions - 1)

\* C28: in the result optimize() returned, selected_routes and route_paths
\* have the same keys, every key is the id of an input transaction, every
\* selected index is below the number of candidates of its transaction,
\* and route_paths holds the candidate at the selected index.
C28_SelectionConsistent ==
    pc = "done" =>
        /\ DOMAIN result.selected_routes = DOMAIN result.route_paths
        /\ \A t \in DOMAIN result.selected_routes :
              /\ \E i \in TxPositions : transactions[i].transaction_id = t
              /\ t \in DOMAIN rf.all_routes
              /\ result.selected_routes[t] \in 0..(Len(rf.all_routes[t]) - 1)
              /\ result.route_paths[t] = rf.all_routes[t][result.selected_routes[t] + 1]

\* Two transactions are selected, one on its first and one on its second
\* candidate, and the two paths differ.
C28_Witness ==
    /\ pc = "done"
    /\ DOMAIN result.selected_routes = {0, 1}
    /\ result.selected_routes[0] = 1
    /\ result.selected_routes[1] = 0
    /\ result.route_paths[0] # rf.all_routes[0][1]

\* The route goes from u to v in one hop.
HopsFromTo(route, u, v) ==
    \E h \in 1..(Len(route) - 1) : route[h] = u /\ route[h + 1] = v

\* The amounts of the transactions whose selected route goes from u to v.
DirectedLoad(u, v) ==
    SumFn([i \in {j \in TxPositions :
                    /\ transactions[j].transaction_id \in DOMAIN result.route_paths
                    /\ HopsFromTo(result.route_paths[transactions[j].transaction_id], u, v)}
             |-> transactions[i].amount])

\* C29: when every transaction has a selected route, the decoded result is
\* feasible exactly when on every channel {u, v} the amounts sent from u
\* to v and those sent from v to u, taken together, do not exceed the
\* capacity: a sum equal to the capacity is feasible, a sum of one unit
\* more is not.
C29_UndirectedUsage ==
    (Decoded /\ EveryTransactionRouted) =>
        /\ result.is_feasible <=>
              \A u, v \in graph.nodes :
                 (u < v /\ {u, v} \in graph.edges) =>
                     DirectedLoad(u, v) + DirectedLoad(v, u) <= graph.capacity[{u, v}]
        /\ (\E u, v \in graph.nodes :
               /\ u < v /\ {u, v} \in graph.edges
               /\ DirectedLoad(u, v) + DirectedLoad(v, u) = graph.capacity[{u, v}] + 1)
             => ~result.is_feasible

\* Two transactions cross one channel in opposite directions, each amount
\* is below the capacity, together they are exactly the capacity, and the
\* result is feasible.
C29_Witness ==
    /\ Decoded
    /\ EveryTransactionRouted
    /\ result.is_feasible
    /\ \E u, v \in graph.nodes :
         /\ u < v /\ {u, v} \in graph.edges
         /\ DirectedLoad(u, v) > 0
         /\ DirectedLoad(v, u) > 0
         /\ DirectedLoad(u, v) + DirectedLoad(v, u) = graph.capacity[{u, v}]

\* C30: throughout the route search every edge of the working copy has a
\* positive fee (the base graph's) and a weight of at least 0.1 times that
\* fee, hence positive, so every shortest-path search runs on positive
\* weights; every route collected or returned is a simple path along
\* channels of the graph.
C30_PositiveWeightsSimpleRoutes ==
    /\ \A e \in graph.edges :
          /\ graph.fee[e] > 0
          /\ rf.G_temp[e] * One >= MultiplierFloor * graph.fee[e]
          /\ rf.G_temp[e] > 0
    /\ \A routes \in ReturnedLists \cup {rf.routes} :
          \A i \in 1..Len(routes) :
             NoRepeatedNode(routes[i]) /\ AlongChannels(routes[i])

\* A search on weights of which one is at the floor of 0.1 times the fee
\* and another above the fee has collected a second route.
C30_Witness ==
    /\ pc = "find"
    /\ rf.attempt > 1
    /\ Len(rf.routes) = 2
    /\ \E e \in graph.edges : rf.G_temp[e] * One = MultiplierFloor * graph.fee[e]
    /\ \E e \in graph.edges : rf.G_temp[e] > graph.fee[e]

=============================================================================
